---- MODULE Spec2Model ----
(***************************************************************************)
(* Model of the MUP dashboard (three React apps that share one             *)
(* amortization / break-even engine):                                      *)
(*   src/src/App.jsx       three scenarios, numeric state   (app "three")  *)
(*   src/unnamed/part_000  three scenarios, text state      (app "text")   *)
(*   src/unnamed/part_001  one scenario, inline calc        (app "single") *)
(*                                                                         *)
(* JS numbers are modelled as exact rationals in lowest terms together     *)
(* with NaN, +Infinity and -Infinity; rounding of IEEE doubles and the     *)
(* sign of zero are not modelled.  Strings are sequences of one-character  *)
(* strings.                                                                *)
(***************************************************************************)
EXTENDS Integers, Sequences, FiniteSets, TLC

VARIABLES
    app,        \* which of the three apps is running
    state,      \* React state: scenario -> record of the five editable fields
    N_max_top,  \* React state: the shared horizon (a JS number)
    res,        \* the memoized engine result of every scenario
    shown,      \* what the render shows of the break-even of every scenario
    chartData,  \* the memoized rows handed to the chart
    edits,      \* number of UI events handled so far
    pc,         \* engine call protocol: "idle", "pending", "returned"
    call,       \* arguments of the engine call in flight
    ret         \* value the engine call returned

vars == <<app, state, N_max_top, res, shown, chartData, edits, pc, call, ret>>

(***************************************************************************)
(* Bounds of the model.                                                    *)
(***************************************************************************)
MaxHorizon == 3
MaxEdits == 2
MaxTextLen == 3

(***************************************************************************)
(* JS numbers.  TLC evaluates the arguments of an operator by name; the    *)
(* arithmetic binds each operand once (x \in {a}) so that it is evaluated  *)
(* a single time.                                                          *)
(***************************************************************************)
Only(S) == CHOOSE v \in S : TRUE

Abs(x) == IF x < 0 THEN -x ELSE x

GCDf[p \in Nat \X Nat] == IF p[2] = 0 THEN p[1] ELSE GCDf[<<p[2], p[1] % p[2]>>]
GCD(a, b) == IF a = 1 \/ b = 1 THEN 1 ELSE IF a = b THEN a ELSE GCDf[<<a, b>>]

\* the rational n / d (d # 0) in lowest terms with a positive denominator
Fin(n0, d0) ==
    Only({Only({[k |-> "fin", n |-> (s * n) \div g, d |-> (s * d) \div g] :
                  s \in {IF d < 0 THEN -1 ELSE 1}, g \in {GCD(Abs(n), Abs(d))}}) :
          n \in {n0}, d \in {d0}})

IntNum(n) == [k |-> "fin", n |-> n, d |-> 1]
NaN == [k |-> "nan", n |-> 0, d |-> 1]
Inf(sign) == [k |-> "inf", n |-> sign, d |-> 1]
Zero == IntNum(0)
One == IntNum(1)

Sign(x) == IF x.n < 0 THEN -1 ELSE IF x.n > 0 THEN 1 ELSE 0
IsNaN(x) == x.k = "nan"
IsFinite(x) == x.k = "fin"
Neg(a) == Only({[x EXCEPT !.n = -x.n] : x \in {a}})

\* a + b
Add(a, b) ==
    Only({IF x.k = "nan" \/ y.k = "nan" THEN NaN
          ELSE IF x.k = "inf" THEN (IF y.k = "inf" /\ y.n # x.n THEN NaN ELSE x)
          ELSE IF y.k = "inf" THEN y
          ELSE Only({Fin(x.n * (l \div x.d) + y.n * (l \div y.d), l) :
                       l \in {(x.d \div GCD(x.d, y.d)) * y.d}}) :
          x \in {a}, y \in {b}})

\* a - b
Sub(a, b) == Add(a, Neg(b))

\* a * b
Mul(a, b) ==
    Only({IF x.k = "nan" \/ y.k = "nan" THEN NaN
          ELSE IF x.k = "inf" \/ y.k = "inf"
               THEN (IF Sign(x) = 0 \/ Sign(y) = 0 THEN NaN ELSE Inf(Sign(x) * Sign(y)))
          ELSE Only({[k |-> "fin", n |-> (x.n \div g1) * (y.n \div g2),
                      d |-> (x.d \div g2) * (y.d \div g1)] :
                       g1 \in {GCD(Abs(x.n), y.d)}, g2 \in {GCD(Abs(y.n), x.d)}}) :
          x \in {a}, y \in {b}})

\* a / b  (a zero divisor is +0)
Div(a, b) ==
    Only({IF x.k = "nan" \/ y.k = "nan" THEN NaN
          ELSE IF x.k = "inf"
               THEN (IF y.k = "inf" THEN NaN
                     ELSE Inf(x.n * (IF Sign(y) < 0 THEN -1 ELSE 1)))
          ELSE IF y.k = "inf" THEN Zero
          ELSE IF y.n = 0 THEN (IF x.n = 0 THEN NaN ELSE Inf(Sign(x)))
          ELSE Mul(x, [k |-> "fin", n |-> IF y.n < 0 THEN -y.d ELSE y.d, d |-> Abs(y.n)]) :
          x \in {a}, y \in {b}})

\* a <= b  (false when either is NaN)
Leq(a, b) ==
    \E x \in {a}, y \in {b} :
        IF x.k = "nan" \/ y.k = "nan" THEN FALSE
        ELSE IF x.k = "inf" THEN (x.n < 0 \/ (y.k = "inf" /\ y.n > 0))
        ELSE IF y.k = "inf" THEN y.n > 0
        ELSE \E g \in {GCD(x.d, y.d)} : x.n * (y.d \div g) <= y.n * (x.d \div g)

\* Math.max(a, b), Math.min(a, b)
MathMax(a, b) ==
    Only({IF x.k = "nan" \/ y.k = "nan" THEN NaN ELSE IF Leq(x, y) THEN y ELSE x :
          x \in {a}, y \in {b}})
MathMin(a, b) ==
    Only({IF x.k = "nan" \/ y.k = "nan" THEN NaN ELSE IF Leq(x, y) THEN x ELSE y :
          x \in {a}, y \in {b}})

\* q ** N for an integer N >= 0
RECURSIVE Pow(_, _)
Pow(q, N) == IF N = 0 THEN One ELSE Mul(q, Pow(q, N - 1))

\* x === 1
IsOne(x) == x.k = "fin" /\ x.n = 1 /\ x.d = 1

(***************************************************************************)
(* Strings and the JS parsing functions the handlers use.                  *)
(***************************************************************************)
Digits == <<"0", "1", "2", "3", "4", "5", "6", "7", "8", "9">>
IsDigit(c) == \E i \in 1..10 : Digits[i] = c
DigitVal(c) == (CHOOSE i \in 1..10 : Digits[i] = c) - 1

\* number of StrWhiteSpaceChar at s[i], s[i+1], ...
RECURSIVE WsRun(_, _)
WsRun(s, i) == IF i <= Len(s) /\ s[i] = " " THEN 1 + WsRun(s, i + 1) ELSE 0

\* number of decimal digits at s[i], s[i+1], ...
RECURSIVE DigitRun(_, _)
DigitRun(s, i) == IF i <= Len(s) /\ IsDigit(s[i]) THEN 1 + DigitRun(s, i + 1) ELSE 0

\* value of the decimal digits s[i], ..., s[j] (0 when there are none)
RECURSIVE DigitsValue(_, _, _)
DigitsValue(s, i, j) ==
    IF j < i THEN 0 ELSE 10 * DigitsValue(s, i, j - 1) + DigitVal(s[j])

RECURSIVE Pow10(_)
Pow10(n) == IF n = 0 THEN 1 ELSE 10 * Pow10(n - 1)

\* parseFloat(s): leading white space, optional sign, the longest prefix that
\* is a decimal literal (digits, optional '.', digits); NaN when there is none.
\* Exponents and the literal "Infinity" are outside the alphabet of the model.
\* (s is str followed by an end marker.)
parseFloat(str) ==
    Only({Only({Only({
        IF ni + nf = 0 THEN NaN
        ELSE Fin((IF s[i0] = "-" THEN -1 ELSE 1)
                   * (DigitsValue(s, i, i + ni - 1) * Pow10(nf)
                      + DigitsValue(s, i + ni + 1, i + ni + nf)),
                 Pow10(nf)) :
            nf \in {IF i + ni <= Len(s) /\ s[i + ni] = "." THEN DigitRun(s, i + ni + 1) ELSE 0}}) :
          ni \in {DigitRun(s, i)}}) :
        s \in {str \o <<"$">>},
        i0 \in {WsRun(str, 1) + 1},
        i \in {IF WsRun(str, 1) < Len(str) /\ str[WsRun(str, 1) + 1] \in {"+", "-"}
               THEN WsRun(str, 1) + 2 ELSE WsRun(str, 1) + 1}})

\* parseInt(s, 10): leading white space, optional sign, the longest prefix of
\* decimal digits; NaN when there is none.
parseInt(str) ==
    Only({Only({
        IF ni = 0 THEN NaN
        ELSE IntNum((IF s[i0] = "-" THEN -1 ELSE 1) * DigitsValue(s, i, i + ni - 1)) :
          ni \in {DigitRun(s, i)}}) :
        s \in {str \o <<"$">>},
        i0 \in {WsRun(str, 1) + 1},
        i \in {IF WsRun(str, 1) < Len(str) /\ str[WsRun(str, 1) + 1] \in {"+", "-"}
               THEN WsRun(str, 1) + 2 ELSE WsRun(str, 1) + 1}})

\* s.replace(",", "."): the first comma becomes a dot
replaceComma(s) ==
    IF \E i \in 1..Len(s) : s[i] = ","
    THEN LET first == CHOOSE i \in 1..Len(s) : s[i] = "," /\ \A j \in 1..(i - 1) : s[j] # ","
         IN  [j \in 1..Len(s) |-> IF j = first THEN "." ELSE s[j]]
    ELSE s

\* number of white space characters at s[i], s[i-1], ...
RECURSIVE WsRunBack(_, _)
WsRunBack(s, i) == IF i >= 1 /\ s[i] = " " THEN 1 + WsRunBack(s, i - 1) ELSE 0

\* s.trim()
trim(s) ==
    IF WsRun(s, 1) = Len(s) THEN <<>>
    ELSE SubSeq(s, WsRun(s, 1) + 1, Len(s) - WsRunBack(s, Len(s)))

(***************************************************************************)
(* JS values held in React state and in results: a string, a number or     *)
(* null.                                                                   *)
(***************************************************************************)
Str(s) == [t |-> "str", s |-> s, v |-> Zero]
NumV(x) == [t |-> "num", s |-> <<>>, v |-> x]
Null == [t |-> "null", s |-> <<>>, v |-> Zero]

\* ToNumber of a number or null, as in `firstCost * 1000`
ToNumber(x) == IF x.t = "null" THEN Zero ELSE x.v

\* ToBoolean of a number or null, as in `result?.breakEven ? ... : ...`
Truthy(x) == x.t = "num" /\ x.v.k # "nan" /\ x.v.n # 0

\* toNum(v, fallback)
toNum(v, fallback) ==
    LET n == IF v.t = "str" THEN parseFloat(v.s) ELSE v.v
    IN  IF IsFinite(n) THEN n ELSE fallback

(***************************************************************************)
(* The engine.  The loop and U_eff_js are textually the same in the three  *)
(* files; the operators below are shared by the three entry points.        *)
(***************************************************************************)
\* the fixed physical constants (kg CO2e)
constants ==
    [m_Al_mup |-> Fin(324, 100000),
     EF_Al_prim |-> Fin(1477, 100),
     E_fw_init |-> Fin(37, 100000),
     E_single_shot |-> Fin(437, 100000),
     E_use |-> Zero,
     E_clean |-> Fin(1, 1000),
     T_FACTOR_PER_100KM |-> Fin(37, 100000)]

Thousand == IntNum(1000)

\* E_start = m_Al_mup * EF_Al_prim + E_manu_mup + E_fw_init
StartCost(c, E_manu_mup) ==
    LET E_mat_mup == Mul(c.m_Al_mup, c.EF_Al_prim)
    IN  Add(Add(E_mat_mup, E_manu_mup), c.E_fw_init)

\* mutant of CycleCost: the return trip is left out
CycleCost_OneWay(c, KM_ONE_WAY) ==
    LET T_FACTOR_PER_KM == Div(c.T_FACTOR_PER_100KM, IntNum(100))
        E_fw == Mul(T_FACTOR_PER_KM, KM_ONE_WAY)
    IN  Add(Add(c.E_clean, E_fw), c.E_use)

\* E_cycle = E_clean + E_fw + E_use + E_rev
CycleCost(c, KM_ONE_WAY) ==
    LET T_FACTOR_PER_KM == Div(c.T_FACTOR_PER_100KM, IntNum(100))
        E_fw == Mul(T_FACTOR_PER_KM, KM_ONE_WAY)
        E_rev == Mul(T_FACTOR_PER_KM, KM_ONE_WAY)
    IN  Add(Add(Add(c.E_clean, E_fw), c.E_use), E_rev)

\* Math.min(1, Math.max(0, x))
Clamp01(x) == MathMin(One, MathMax(Zero, x))

\* mutant of SurvivalProduct: the complement of the scrap rate is dropped
SurvivalProduct_NoComplement(p_ret, p_scr) == Mul(p_ret, p_scr)

\* q = p_ret * (1 - p_scr)
SurvivalProduct(p_ret, p_scr) == Mul(p_ret, Sub(One, p_scr))

\* mutant of U_eff_js: the exponent is off by one
U_eff_js_OffByOne(N, q) ==
    IF IsOne(q) THEN IntNum(N)
    ELSE Div(Sub(One, Pow(q, N - 1)), Sub(One, q))

\* mutant of U_eff_js: the closed form is used at q = 1 as well
U_eff_js_NoSpecialCase(N, q) == Div(Sub(One, Pow(q, N)), Sub(One, q))

\* U_eff_js(N, q), N an integer
U_eff_js(N, q) ==
    IF IsOne(q) THEN IntNum(N)
    ELSE Div(Sub(One, Pow(q, N)), Sub(One, q))

\* mutant of Amort: the lifetime total is spread over the N attempted cycles
Amort_DivideByN(E_start, E_cycle, E_EoL_mup, q, N) ==
    Only({Div(Add(Add(E_start, Mul(U, E_cycle)), E_EoL_mup), IntNum(N)) :
          U \in {U_eff_js(N, q)}})

\* amort = (E_start + U * E_cycle + E_EoL_mup) / U
Amort(E_start, E_cycle, E_EoL_mup, q, N) ==
    Only({Div(Add(Add(E_start, Mul(U, E_cycle)), E_EoL_mup), U) :
          U \in {U_eff_js(N, q)}})

\* mutant of NextFirstCost: assigned on every iteration
NextFirstCost_Overwrite(firstCost, amort) == NumV(amort)

\* if (firstCost === null) firstCost = amort
NextFirstCost(firstCost, amort) ==
    IF firstCost.t = "null" THEN NumV(amort) ELSE firstCost

\* lastCost = amort
NextLastCost(lastCost, amort) == NumV(amort)

\* mutant of NextBreakEven: a later crossing overwrites the first
NextBreakEven_Overwrite(breakEven, amort, E_single_shot, N) ==
    IF Leq(amort, E_single_shot) THEN NumV(IntNum(N)) ELSE breakEven

\* mutant of NextBreakEven: the zero-based index of the cycle is recorded
NextBreakEven_ZeroBased(breakEven, amort, E_single_shot, N) ==
    IF breakEven.t = "null" /\ Leq(amort, E_single_shot)
    THEN NumV(IntNum(N - 1)) ELSE breakEven

\* if (breakEven === null && amort <= E_single_shot) breakEven = N
NextBreakEven(breakEven, amort, E_single_shot, N) ==
    IF breakEven.t = "null" /\ Leq(amort, E_single_shot)
    THEN NumV(IntNum(N)) ELSE breakEven

\* mutant of SeriesRow: the zero-based index of the cycle is stored
SeriesRow_ZeroBased(N, amort, E_single_shot) ==
    [cycle |-> N - 1, MUP_g |-> Mul(amort, Thousand), SUP_g |-> Mul(E_single_shot, Thousand)]

\* the point pushed for cycle N by computeSeries (both three-scenario apps)
SeriesRow(N, amort, E_single_shot) ==
    [cycle |-> N, MUP_g |-> Mul(amort, Thousand), SUP_g |-> Mul(E_single_shot, Thousand)]

\* the point pushed for cycle N by calc (single-scenario app)
CalcRow(N, amort, E_single_shot, E_cycle) ==
    [cycle |-> N, MUP |-> Mul(amort, Thousand), SUP |-> Mul(E_single_shot, Thousand),
     MinCycle |-> Mul(E_cycle, Thousand)]

\* for (let N = 1; N <= N_max_top; N++) { ... }, from iteration N on;
\* e holds E_start, E_cycle, E_EoL_mup, q, E_single_shot, N_max_top, single
RECURSIVE Loop(_, _, _)
Loop(e0, N, acc0) ==
    Only({IF ~Leq(IntNum(N), e.N_max_top) THEN acc
          ELSE Only({Loop(e, N + 1,
                          [data |-> Append(acc.data,
                                           IF e.single
                                           THEN CalcRow(N, amort, e.E_single_shot, e.E_cycle)
                                           ELSE SeriesRow(N, amort, e.E_single_shot)),
                           firstCost |-> NextFirstCost(acc.firstCost, amort),
                           lastCost |-> NextLastCost(acc.lastCost, amort),
                           breakEven |-> NextBreakEven(acc.breakEven, amort,
                                                       e.E_single_shot, N)]) :
                       amort \in {Amort(e.E_start, e.E_cycle, e.E_EoL_mup, e.q, N)}}) :
          e \in {e0}, acc \in {acc0}})

\* const data = []; let firstCost = null; let lastCost = null; let breakEven = null
LoopInit == [data |-> <<>>, firstCost |-> Null, lastCost |-> Null, breakEven |-> Null]

\* what computeSeries returns
SeriesResult(acc0, q, E_cycle) ==
    Only({[data |-> acc.data,
           q |-> q,
           E_cycle_g |-> Mul(E_cycle, Thousand),
           firstCost_g |-> Mul(ToNumber(acc.firstCost), Thousand),
           lastCost_g |-> Mul(ToNumber(acc.lastCost), Thousand),
           breakEven |-> acc.breakEven] : acc \in {acc0}})

\* computeSeries(params, constants, N_max_top) of src/src/App.jsx
computeSeries(params, c, N) ==
    Only({SeriesResult(Loop([E_start |-> E_start, E_cycle |-> E_cycle,
                             E_EoL_mup |-> params.E_EoL_mup.v, q |-> q,
                             E_single_shot |-> c.E_single_shot, N_max_top |-> N,
                             single |-> FALSE], 1, LoopInit),
                       q, E_cycle) :
          E_start \in {StartCost(c, params.E_manu_mup.v)},
          E_cycle \in {CycleCost(c, params.KM_ONE_WAY.v)},
          q \in {SurvivalProduct(Clamp01(params.p_ret.v), Clamp01(params.p_scr.v))}})

\* computeSeries(params, constants, N_max_top) of src/unnamed/part_000
computeSeriesText(params, c, N) ==
    Only({SeriesResult(Loop([E_start |-> E_start, E_cycle |-> E_cycle,
                             E_EoL_mup |-> E_EoL_mup, q |-> q,
                             E_single_shot |-> c.E_single_shot, N_max_top |-> N,
                             single |-> FALSE], 1, LoopInit),
                       q, E_cycle) :
          E_start \in {StartCost(c, toNum(params.E_manu_mup, Zero))},
          E_cycle \in {CycleCost(c, toNum(params.KM_ONE_WAY, Zero))},
          E_EoL_mup \in {toNum(params.E_EoL_mup, Zero)},
          q \in {SurvivalProduct(Clamp01(toNum(params.p_ret, Zero)),
                                 Clamp01(toNum(params.p_scr, Zero)))}})

\* the useMemo body `calc` of src/unnamed/part_001
\* what calc returns
CalcResult(acc0, q, E_cycle, E_single_shot) ==
    Only({[q |-> q,
           E_cycle |-> E_cycle,
           firstCost |-> acc.firstCost,
           lastCost |-> acc.lastCost,
           breakEven |-> acc.breakEven,
           chartData |-> acc.data,
           g_single_shot |-> Mul(E_single_shot, Thousand),
           g_cycle |-> Mul(E_cycle, Thousand)] : acc \in {acc0}})

calc(params, c, N) ==
    Only({CalcResult(Loop([E_start |-> E_start, E_cycle |-> E_cycle,
                           E_EoL_mup |-> params.E_EoL_mup.v, q |-> q,
                           E_single_shot |-> c.E_single_shot, N_max_top |-> N,
                           single |-> TRUE], 1, LoopInit),
                     q, E_cycle, c.E_single_shot) :
          E_start \in {StartCost(c, params.E_manu_mup.v)},
          E_cycle \in {CycleCost(c, params.KM_ONE_WAY.v)},
          q \in {SurvivalProduct(params.p_ret.v, params.p_scr.v)}})

\* the engine of an app
Engine(a, params, N) ==
    IF a = "three" THEN computeSeries(params, constants, N)
    ELSE IF a = "text" THEN computeSeriesText(params, constants, N)
    ELSE calc(params, constants, N)

\* readers of a result that do not depend on which engine produced it
DataOf(r) == IF "data" \in DOMAIN r THEN r.data ELSE r.chartData
RowG(row) == IF "MUP_g" \in DOMAIN row THEN row.MUP_g ELSE row.MUP
RowRefG(row) == IF "SUP_g" \in DOMAIN row THEN row.SUP_g ELSE row.SUP
FirstG(r) ==
    IF "firstCost_g" \in DOMAIN r THEN r.firstCost_g ELSE Mul(ToNumber(r.firstCost), Thousand)
LastG(r) ==
    IF "lastCost_g" \in DOMAIN r THEN r.lastCost_g ELSE Mul(ToNumber(r.lastCost), Thousand)

(***************************************************************************)
(* The three apps: React state, handlers and render.                       *)
(***************************************************************************)
Apps == {"three", "text", "single"}
Scenarios(a) ==
    IF a = "single" THEN {"single"}
    ELSE IF a \in {"three", "text"} THEN {"worst", "expected", "best"}
    ELSE {}

NumFields == {"E_manu_mup", "KM_ONE_WAY", "E_EoL_mup"}
SliderFields == {"p_ret", "p_scr"}

\* texts a user leaves in an input (e.target.value)
T0 == <<"0">>
T0_5 == <<"0", ".", "5">>
T1 == <<"1">>
T0_001 == <<"0", ".", "0", "0", "1">>
T300 == <<"3", "0", "0">>
TNeg0_045 == <<"-", "0", ".", "0", "4", "5">>
TNeg0_05 == <<"-", "0", ".", "0", "5">>
TEmpty == <<>>

\* a type="number" input hands over the empty string or a valid number
NumberTexts(f) ==
    IF f = "E_manu_mup" THEN {TEmpty, T0_001}
    ELSE IF f = "KM_ONE_WAY" THEN {TEmpty, T300}
    ELSE {TEmpty, TNeg0_045, TNeg0_05}

\* a type="text" input hands over whatever was typed
FreeTexts(f) ==
    IF f = "E_manu_mup" THEN {TEmpty, <<"0", ",", "0", "0", "1">>}
    ELSE IF f = "KM_ONE_WAY" THEN {TEmpty, <<" ", "3", "0", "0", " ">>}
    ELSE {TEmpty, TNeg0_045, <<"-", "0", ",", "0", "5">>}

\* a type="range" input with min 0, max 1 hands over a number in [0, 1]
SliderTexts == {T0, T0_5, T1}

\* the horizon input is type="number"
HorizonTexts ==
    {TEmpty, T0, <<"-", "1">>, <<"1", ".", "5">>} \cup {<<Digits[n + 1]>> : n \in 1..MaxHorizon}

\* useState(...) of the scenarios.  The sliders and the horizon start at
\* positions of the model's grid (the shipped positions 0.95, 0.02, ..., 50
\* need powers that exceed TLC's integers); every other field starts at its
\* shipped value.
InitialState(a) ==
    IF a = "three" THEN
        [worst |-> [E_manu_mup |-> NumV(Fin(10, 10000)), KM_ONE_WAY |-> NumV(IntNum(300)),
                    p_ret |-> NumV(Fin(1, 2)), p_scr |-> NumV(Fin(1, 2)),
                    E_EoL_mup |-> NumV(Fin(1, 10000))],
         expected |-> [E_manu_mup |-> NumV(Fin(8, 10000)), KM_ONE_WAY |-> NumV(IntNum(200)),
                       p_ret |-> NumV(One), p_scr |-> NumV(Fin(1, 2)),
                       E_EoL_mup |-> NumV(Zero)],
         best |-> [E_manu_mup |-> NumV(Fin(6, 10000)), KM_ONE_WAY |-> NumV(IntNum(100)),
                   p_ret |-> NumV(One), p_scr |-> NumV(Zero),
                   E_EoL_mup |-> NumV(Fin(-1, 10000))]]
    ELSE IF a = "text" THEN
        [worst |-> [E_manu_mup |-> Str(<<"0", ".", "0", "0", "1", "0">>),
                    KM_ONE_WAY |-> Str(<<"5", "0", "0">>),
                    p_ret |-> NumV(Fin(1, 2)), p_scr |-> NumV(Fin(1, 2)),
                    E_EoL_mup |-> Str(<<"0", ".", "0", "0", "0", "2">>)],
         expected |-> [E_manu_mup |-> Str(<<"0", ".", "0", "0", "0", "8">>),
                       KM_ONE_WAY |-> Str(<<"3", "0", "0">>),
                       p_ret |-> NumV(One), p_scr |-> NumV(Fin(1, 2)),
                       E_EoL_mup |-> Str(<<"0", ".", "0", "0", "0", "0">>)],
         best |-> [E_manu_mup |-> Str(<<"0", ".", "0", "0", "0", "6">>),
                   KM_ONE_WAY |-> Str(<<"1", "5", "0">>),
                   p_ret |-> NumV(One), p_scr |-> NumV(Zero),
                   E_EoL_mup |-> Str(<<"-", "0", ".", "0", "0", "1", "5">>)]]
    ELSE
        [single |-> [E_manu_mup |-> NumV(Fin(8, 10000)), KM_ONE_WAY |-> NumV(IntNum(300)),
                     p_ret |-> NumV(One), p_scr |-> NumV(Fin(1, 2)),
                     E_EoL_mup |-> NumV(Fin(-15, 10000))]]

\* the useMemo results of a render: every scenario's engine on the current state
Results(a, st, N) == [s \in Scenarios(a) |-> Engine(a, st[s], N)]

\* the break-even marker of a render: `x.breakEven ? <marker N=x.breakEven> : none`
Marker(r) ==
    IF Truthy(r.breakEven) THEN [marker |-> TRUE, N |-> r.breakEven.v]
    ELSE [marker |-> FALSE, N |-> Zero]
Render(a, rs) == [s \in Scenarios(a) |-> Marker(rs[s])]

\* the key under which the chart row holds a scenario's amortized value
ChartKey(s) ==
    IF s = "worst" THEN "MUP_Worst"
    ELSE IF s = "expected" THEN "MUP_Expected"
    ELSE "MUP_Best"

\* add(arr, key), from element i of arr on.  The Map is the sequence of its
\* keys in insertion order (order) and the row of every key (rows).
\*   const row = map.get(r.cycle) || { cycle: r.cycle, SUP: r.SUP_g };
\*   row[key] = r.MUP_g; map.set(r.cycle, row)
RECURSIVE add(_, _, _, _)
add(map0, arr0, key, i) ==
    Only({IF i > Len(arr) THEN map
          ELSE Only({add([order |-> IF r.cycle \in DOMAIN map.rows THEN map.order
                                    ELSE Append(map.order, r.cycle),
                          rows |-> (r.cycle :> ((key :> r.MUP_g) @@ row)) @@ map.rows],
                         arr, key, i + 1) :
                       r \in {arr[i]},
                       row \in {IF arr[i].cycle \in DOMAIN map.rows
                                THEN map.rows[arr[i].cycle]
                                ELSE [cycle |-> arr[i].cycle, SUP |-> arr[i].SUP_g]}}) :
          map \in {map0}, arr \in {arr0}})

\* rows with row x put after the last row whose cycle is <= x.cycle
RECURSIVE InsertByCycle(_, _)
InsertByCycle(rows, x) ==
    IF rows = <<>> \/ rows[Len(rows)].cycle <= x.cycle THEN Append(rows, x)
    ELSE Append(InsertByCycle(SubSeq(rows, 1, Len(rows) - 1), x), rows[Len(rows)])

\* mutant of sortByCycle: the comparator is b.cycle - a.cycle
RECURSIVE sortByCycle_Descending(_)
sortByCycle_Descending(rows) ==
    IF rows = <<>> THEN <<>>
    ELSE LET sorted == InsertByCycle(SubSeq(rows, 1, Len(rows) - 1), rows[Len(rows)])
         IN  [i \in 1..Len(rows) |-> sorted[Len(rows) + 1 - i]]

\* rows.sort((a, b) => a.cycle - b.cycle), a stable sort
RECURSIVE sortByCycle(_)
sortByCycle(rows) ==
    IF rows = <<>> THEN <<>>
    ELSE InsertByCycle(sortByCycle(SubSeq(rows, 1, Len(rows) - 1)), rows[Len(rows)])

\* the rows of the Map after add(...) for the scenarios of `scenarios`, in
\* this order, sorted by cycle
RECURSIVE MergeFrom(_, _, _, _)
MergeFrom(map0, scenarios, rs, k) ==
    Only({IF k > Len(scenarios)
          THEN sortByCycle([i \in 1..Len(map.order) |-> map.rows[map.order[i]]])
          ELSE MergeFrom(add(map, rs[scenarios[k]].data, ChartKey(scenarios[k]), 1),
                         scenarios, rs, k + 1) :
          map \in {map0}})

EmptyMap == [order |-> <<>>, rows |-> <<>>]

\* the chartData of a render: the merge of resWorst, resExpected and resBest
\* in the three-scenario apps, calc.chartData in the single-scenario app
ChartData(a, rs) ==
    IF a = "single" THEN rs["single"].chartData
    ELSE MergeFrom(EmptyMap, <<"worst", "expected", "best">>, rs, 1)

\* mutant of Update: N_max_top is missing from the dependencies of useMemo
Update_HorizonNotADependency(st, N, changed) ==
    /\ state' = st
    /\ N_max_top' = N
    /\ res' = [s \in Scenarios(app) |->
                 IF s \in changed THEN Engine(app, state'[s], N_max_top') ELSE res[s]]
    /\ shown' = Render(app, res')
    /\ chartData' = ChartData(app, res')
    /\ edits' = edits + 1
    /\ UNCHANGED <<app, pc, call, ret>>

\* a state update followed by the re-render it causes: useMemo recomputes the
\* result of a scenario when its state object was replaced (the scenarios in
\* `changed`) or N_max_top changed, and keeps the memoized result otherwise
Update(st, N, changed) ==
    /\ state' = st
    /\ N_max_top' = N
    /\ res' = [s \in Scenarios(app) |->
                 IF s \in changed \/ N_max_top' # N_max_top
                 THEN Engine(app, state'[s], N_max_top')
                 ELSE res[s]]
    /\ shown' = Render(app, res')
    /\ chartData' = ChartData(app, res')
    /\ edits' = edits + 1
    /\ UNCHANGED <<app, pc, call, ret>>

\* mutant of NumChangeThree: the three cards share one state object
NumChangeThree_SharedState(s, f, text) ==
    /\ app = "three" /\ edits < MaxEdits
    /\ LET v == parseFloat(text)
       IN  Update([t \in Scenarios(app) |->
                      [state[t] EXCEPT ![f] = NumV(IF IsNaN(v) THEN Zero ELSE v)]],
                  N_max_top, Scenarios(app))

\* Num onChange of src/src/App.jsx: set(parseFloat(e.target.value)) with
\* set = v => setState(s => ({...s, F: isNaN(v) ? 0 : v}))
NumChangeThree(s, f, text) ==
    /\ app = "three" /\ edits < MaxEdits
    /\ LET v == parseFloat(text)
       IN  Update([state EXCEPT ![s][f] = NumV(IF IsNaN(v) THEN Zero ELSE v)], N_max_top, {s})

\* Num onChange of src/unnamed/part_000: set(e.target.value), the raw string
NumChangeText(s, f, text) ==
    /\ app = "text" /\ edits < MaxEdits
    /\ Update([state EXCEPT ![s][f] = Str(text)], N_max_top, {s})

\* const normalized = e.target.value.replace(",", ".").trim()
normalized(text) == trim(replaceComma(text))

\* Num onBlur of src/unnamed/part_000, on the text the controlled input holds:
\* set(normalized)
NumBlurText(s, f) ==
    /\ app = "text" /\ edits < MaxEdits
    /\ Update([state EXCEPT ![s][f] = Str(normalized(state[s][f].s))], N_max_top, {s})

\* number inputs of src/unnamed/part_001: setX(parseFloat(e.target.value))
NumChangeSingle(s, f, text) ==
    /\ app = "single" /\ edits < MaxEdits
    /\ Update([state EXCEPT ![s][f] = NumV(parseFloat(text))], N_max_top, {s})

\* range inputs of the three apps: set(parseFloat(e.target.value))
SliderChange(s, f, text) ==
    /\ app \in Apps /\ edits < MaxEdits
    /\ Update([state EXCEPT ![s][f] = NumV(parseFloat(text))], N_max_top, {s})

\* horizon input of the three-scenario apps:
\* setNMaxTop(parseInt(e.target.value || "1", 10))
HorizonChangeMulti(text) ==
    /\ app \in {"three", "text"} /\ edits < MaxEdits
    /\ Update(state, parseInt(IF text = <<>> THEN T1 ELSE text), {})

\* horizon input of src/unnamed/part_001: setNMaxTop(parseInt(e.target.value))
HorizonChangeSingle(text) ==
    /\ app = "single" /\ edits < MaxEdits
    /\ Update(state, parseInt(text), {})

Init ==
    /\ app \in Apps
    /\ state = InitialState(app)
    /\ N_max_top = IntNum(MaxHorizon)
    /\ res = Results(app, state, N_max_top)
    /\ shown = Render(app, res)
    /\ chartData = ChartData(app, res)
    /\ edits = 0
    /\ pc = "idle"
    /\ call = <<>>
    /\ ret = <<>>

Next ==
    \/ \E s \in Scenarios(app), f \in NumFields :
          \E text \in NumberTexts(f) : NumChangeThree(s, f, text)
    \/ \E s \in Scenarios(app), f \in NumFields :
          \E text \in FreeTexts(f) : NumChangeText(s, f, text)
    \/ \E s \in Scenarios(app), f \in NumFields : NumBlurText(s, f)
    \/ \E s \in Scenarios(app), f \in NumFields :
          \E text \in NumberTexts(f) : NumChangeSingle(s, f, text)
    \/ \E s \in Scenarios(app), f \in SliderFields, text \in SliderTexts :
          SliderChange(s, f, text)
    \/ \E text \in HorizonTexts : HorizonChangeMulti(text)
    \/ \E text \in HorizonTexts : HorizonChangeSingle(text)

Spec == Init /\ [][Next]_vars

(***************************************************************************)
(* The engine as a function: one call on arguments drawn from bounded      *)
(* sets, by each of the three entry points.                                *)
(***************************************************************************)
ManuValues == {Zero, Fin(8, 10000)}
KmValues == {Zero, IntNum(300)}
ProbValues == {Fin(-1, 2), Zero, Fin(1, 2), One, Fin(3, 2)}
EoLValues == {Zero, Fin(-45, 1000), Fin(-5, 100), Fin(5, 100)}

ParamRecords ==
    {[E_manu_mup |-> NumV(m), KM_ONE_WAY |-> NumV(km), p_ret |-> NumV(pr),
      p_scr |-> NumV(ps), E_EoL_mup |-> NumV(eol)] :
        m \in ManuValues, km \in KmValues, pr \in ProbValues,
        ps \in ProbValues, eol \in EoLValues}

\* the shipped defaults of the single-scenario app (the expected case)
ExpectedCase ==
    [E_manu_mup |-> NumV(Fin(8, 10000)), KM_ONE_WAY |-> NumV(IntNum(300)),
     p_ret |-> NumV(Fin(95, 100)), p_scr |-> NumV(Fin(2, 100)),
     E_EoL_mup |-> NumV(Fin(-15, 10000))]

\* the calls of the model: every record of the grid with every horizon, and
\* the expected case with horizon 1 (its powers of q = 0.931 exceed TLC's
\* integers from the second cycle on)
Calls ==
    [impl : Apps, params : ParamRecords, N_max_top : {IntNum(h) : h \in 1..MaxHorizon}]
    \cup [impl : Apps, params : {ExpectedCase}, N_max_top : {One}]

InitEngine ==
    /\ app = "none"
    /\ state = <<>>
    /\ N_max_top = Zero
    /\ res = <<>>
    /\ shown = <<>>
    /\ chartData = <<>>
    /\ edits = 0
    /\ pc = "pending"
    /\ call \in Calls
    /\ ret = <<>>

Return(r) ==
    /\ ret' = r
    /\ pc' = "returned"
    /\ UNCHANGED <<app, state, N_max_top, res, shown, chartData, edits, call>>

CallComputeSeries ==
    /\ pc = "pending" /\ call.impl = "three"
    /\ Return(computeSeries(call.params, constants, call.N_max_top))

CallComputeSeriesText ==
    /\ pc = "pending" /\ call.impl = "text"
    /\ Return(computeSeriesText(call.params, constants, call.N_max_top))

CallCalc ==
    /\ pc = "pending" /\ call.impl = "single"
    /\ Return(calc(call.params, constants, call.N_max_top))

NextEngine == CallComputeSeries \/ CallComputeSeriesText \/ CallCalc

SpecEngine == InitEngine /\ [][NextEngine]_vars

(***************************************************************************)
(* Properties of the engine as a function (checked under SpecEngine).      *)
(***************************************************************************)
Returned == pc = "returned"
Horizon == call.N_max_top.n
InUnit(x) == Leq(Zero, x) /\ Leq(x, One)
ProbsInRange(params) == InUnit(params.p_ret.v) /\ InUnit(params.p_scr.v)

\* the entry's amortized emissions are <= the single-use reference
Crosses(row) == Leq(RowG(row), RowRefG(row))

\* C1: with probabilities in [0,1], a break-even cycle that is not null is the
\* smallest cycle index whose entry has amortized emissions <= the single-use
\* reference: that entry crosses and no entry before it does.
C1_FirstCrossing ==
    (Returned /\ ProbsInRange(call.params) /\ ret.breakEven.t # "null") =>
        LET b == ret.breakEven.v.n
            d == DataOf(ret)
        IN  /\ ret.breakEven.v.d = 1
            /\ b \in 1..Horizon
            /\ Crosses(d[b])
            /\ \A i \in 1..(b - 1) : ~Crosses(d[i])

\* a call whose break-even is cycle 2 and whose cycle 3 crosses as well
C1_Witness ==
    /\ Returned /\ ProbsInRange(call.params)
    /\ ret.breakEven = NumV(IntNum(2))
    /\ Horizon >= 3
    /\ Crosses(DataOf(ret)[3])

\* C2: the series has exactly horizon entries and the entry at position i has
\* cycle index i.
C2_SeriesIndices ==
    Returned =>
        /\ Len(DataOf(ret)) = Horizon
        /\ \A i \in 1..Len(DataOf(ret)) : DataOf(ret)[i].cycle = i

C2_Witness == Returned /\ Horizon >= 2 /\ Len(DataOf(ret)) >= 2

\* C4: for q in [0,1] and every N in 1..horizon, 1 <= U(N, q) <= N, and the
\* amortized emissions of every entry are a finite number.
C4_UtilizationBounds ==
    (Returned /\ InUnit(ret.q)) =>
        \A N \in 1..Horizon :
            /\ Leq(One, U_eff_js(N, ret.q))
            /\ Leq(U_eff_js(N, ret.q), IntNum(N))
            /\ IsFinite(RowG(DataOf(ret)[N]))

\* a call with 0 < q < 1 and at least two cycles
C4_Witness ==
    /\ Returned /\ ret.q = Fin(1, 2) /\ Horizon >= 2
    /\ U_eff_js(2, ret.q) = Fin(3, 2)

\* C5: when q = 1, U(N, 1) is exactly N and the amortized emissions at N are
\* cycle_cost + (start_cost + end_of_life_balance) / N.
C5_ExactAtQOne ==
    (Returned /\ IsOne(ret.q)) =>
        \A N \in 1..Horizon :
            /\ U_eff_js(N, ret.q) = IntNum(N)
            /\ RowG(DataOf(ret)[N]) =
                 Mul(Add(CycleCost(constants, call.params.KM_ONE_WAY.v),
                         Div(Add(StartCost(constants, call.params.E_manu_mup.v),
                                 call.params.E_EoL_mup.v),
                             IntNum(N))),
                     Thousand)

C5_Witness == Returned /\ IsOne(ret.q) /\ Horizon >= 2 /\ Len(DataOf(ret)) >= 2

\* the parameter record with both probabilities replaced by max(0, min(1, x))
ClampedParams(params) ==
    [params EXCEPT !.p_ret = NumV(MathMax(Zero, MathMin(One, params.p_ret.v))),
                   !.p_scr = NumV(MathMax(Zero, MathMin(One, params.p_scr.v)))]

\* C6: in each of the three implementations the whole result equals the
\* result for the record with clamped probabilities.
C6_ClampedEverywhere ==
    Returned => ret = Engine(call.impl, ClampedParams(call.params), call.N_max_top)

\* C8: first_cycle_cost is the amortized value of the entry with cycle index
\* 1, which is start_cost + cycle_cost + end_of_life_balance; last_cycle_cost
\* is the amortized value of the entry with cycle index horizon; with horizon
\* 1 the series has one entry and both costs are that entry.
C8_FirstAndLastCost ==
    Returned =>
        /\ FirstG(ret) = RowG(DataOf(ret)[1])
        /\ FirstG(ret) =
             Mul(Add(Add(StartCost(constants, call.params.E_manu_mup.v),
                         CycleCost(constants, call.params.KM_ONE_WAY.v)),
                     call.params.E_EoL_mup.v),
                 Thousand)
        /\ LastG(ret) = RowG(DataOf(ret)[Horizon])
        /\ Horizon = 1 => (Len(DataOf(ret)) = 1 /\ FirstG(ret) = LastG(ret))

\* a call over several cycles whose first and last cost differ
C8_Witness == Returned /\ Horizon >= 2 /\ FirstG(ret) # LastG(ret)

(***************************************************************************)
(* Properties of the running apps (checked under Spec).                    *)
(***************************************************************************)
\* some entry of the series of result r crosses
HasCrossing(r) == \E i \in 1..Len(DataOf(r)) : Crosses(DataOf(r)[i])

\* C3: the break-even of every displayed result is null exactly when no entry
\* crosses, and otherwise an integer in 1..horizon (never 0); the render shows
\* a break-even marker exactly when an entry crosses.
C3_BreakEvenNullOrCycle ==
    \A s \in Scenarios(app) :
        LET be == res[s].breakEven
        IN  /\ (be.t = "null") <=> ~HasCrossing(res[s])
            /\ be.t # "null" =>
                 /\ be.t = "num" /\ IsFinite(be.v) /\ be.v.d = 1
                 /\ Leq(One, be.v) /\ Leq(be.v, N_max_top)
            /\ shown[s].marker <=> HasCrossing(res[s])

\* after an edit, one scenario shows a marker at cycle 2 and another none
C3_Witness ==
    /\ edits > 0
    /\ \E s \in Scenarios(app) : shown[s].marker /\ shown[s].N = IntNum(2)
    /\ \E s \in Scenarios(app) : ~shown[s].marker /\ res[s].breakEven = Null

\* C7: the q of every displayed result is clamp(p_ret) * (1 - clamp(p_scr))
\* of the current state and lies in [0,1].
C7_SurvivalProbability ==
    \A s \in Scenarios(app) :
        /\ state[s].p_ret.t = "num" /\ state[s].p_scr.t = "num"
        /\ res[s].q = Mul(MathMax(Zero, MathMin(One, state[s].p_ret.v)),
                          Sub(One, MathMax(Zero, MathMin(One, state[s].p_scr.v))))
        /\ InUnit(res[s].q)

\* the single-scenario app after both sliders were moved to 0.5
C7_Witness ==
    /\ app = "single" /\ edits = 2
    /\ state["single"].p_ret = NumV(Fin(1, 2))
    /\ state["single"].p_scr = NumV(Fin(1, 2))
    /\ res["single"].q = Fin(1, 4)

\* C9: every engine computation receives an integer horizon >= 1.
C9_HorizonValid ==
    /\ IsFinite(N_max_top)
    /\ N_max_top.d = 1
    /\ N_max_top.n >= 1

\* C10: no q, series entry, first cost or last cost of a displayed result is
\* NaN or infinite.
C10_NoNonFiniteOutput ==
    \A s \in Scenarios(app) :
        /\ IsFinite(res[s].q)
        /\ IsFinite(FirstG(res[s]))
        /\ IsFinite(LastG(res[s]))
        /\ \A i \in 1..Len(DataOf(res[s])) : IsFinite(RowG(DataOf(res[s])[i]))

\* the number a field's content stands for: a text is read as a decimal
\* number, a number is itself
FieldNumber(v) == IF v.t = "str" THEN parseFloat(v.s) ELSE v.v

\* the parameter record with every numeric field that is empty or not a
\* finite number replaced by 0
ZeroForUnparsable(params) ==
    [f \in DOMAIN params |->
        IF f \in NumFields
        THEN NumV(IF IsFinite(FieldNumber(params[f])) THEN FieldNumber(params[f]) ELSE Zero)
        ELSE params[f]]

\* the number of entries of a full series: the horizon when it is valid
FullLength == IF IsFinite(N_max_top) /\ N_max_top.n >= 1 THEN N_max_top.n ELSE 0

\* C11: in each of the three apps the displayed result of every scenario is
\* the engine's result for the current fields with every cleared or
\* unparsable manufacturing, distance and end-of-life field taken as 0, and
\* its series is full.
C11_FallbackToZero ==
    \A s \in Scenarios(app) :
        /\ res[s] = Engine(app, ZeroForUnparsable(state[s]), N_max_top)
        /\ Len(DataOf(res[s])) = FullLength

\* the text with ',' read as '.' and without surrounding white space
CanonicalText(s) == trim([j \in 1..Len(s) |-> IF s[j] = "," THEN "." ELSE s[j]])

\* the parameter record with every text field in canonical form
CanonicalParams(params) ==
    [f \in DOMAIN params |->
        IF params[f].t = "str" THEN Str(CanonicalText(params[f].s)) ELSE params[f]]

\* C12: in every state of the string-state app, after a change event as well
\* as after a blur, the displayed result of every scenario is the engine's
\* result for the same texts written with '.' and without surrounding
\* white space.
C12_PermissiveParsing ==
    app = "text" =>
        \A s \in Scenarios(app) :
            res[s] = Engine(app, CanonicalParams(state[s]), N_max_top)

(***************************************************************************)
(* The string-state app with an arbitrary text in the end-of-life field of *)
(* the worst case, and the field losing focus again and again.  The        *)
(* horizon is 1: the amortized values of the longer texts exceed TLC's     *)
(* integers from the second cycle on.                                      *)
(***************************************************************************)
TextAlphabet == {"1", ",", ".", " "}
TypedTexts == UNION {[1..n -> TextAlphabet] : n \in 0..MaxTextLen}

InitBlur ==
    /\ app = "text"
    /\ \E text \in TypedTexts :
          state = [InitialState("text") EXCEPT !["worst"]["E_EoL_mup"] = Str(text)]
    /\ N_max_top = One
    /\ res = Results(app, state, N_max_top)
    /\ shown = Render(app, res)
    /\ chartData = ChartData(app, res)
    /\ edits = 0
    /\ pc = "idle"
    /\ call = <<>>
    /\ ret = <<>>

NextBlur == NumBlurText("worst", "E_EoL_mup")

SpecBlur == InitBlur /\ [][NextBlur]_vars

(***************************************************************************)
(* Further properties of the engine (checked under SpecEngine).            *)
(***************************************************************************)
AbsNum(x) == IF Leq(Zero, x) THEN x ELSE Neg(x)
Lt(x, y) == Leq(x, y) /\ x # y

\* the one-time emissions of the call: start_cost + end_of_life_balance (kg)
OneTime == Add(StartCost(constants, call.params.E_manu_mup.v), call.params.E_EoL_mup.v)
\* cycle_cost of the call (g)
CycleG == Mul(CycleCost(constants, call.params.KM_ONE_WAY.v), Thousand)
\* the floor (start_cost + end_of_life_balance) * (1 - q) in g
FloorG == Mul(Mul(AbsNum(OneTime), Sub(One, ret.q)), Thousand)
\* cycle_cost + (start_cost + end_of_life_balance) * (1 - q) in g
LimitG == Add(CycleG, Mul(Mul(OneTime, Sub(One, ret.q)), Thousand))
\* distance of the amortized value at N from LimitG
GapToLimit(N) == AbsNum(Sub(RowG(DataOf(ret)[N]), LimitG))
\* distance of the amortized value at N from cycle_cost
GapToCycle(N) == AbsNum(Sub(RowG(DataOf(ret)[N]), CycleG))

ConvergentCall == Returned /\ Leq(Zero, ret.q) /\ Lt(ret.q, One)

Near(x, y) == Leq(AbsNum(Sub(x, y)), Fin(1, 1000000))
\* cycle_cost as the result reports it (g)
ResultCycleG(r) == IF "E_cycle_g" \in DOMAIN r THEN r.E_cycle_g ELSE r.g_cycle

ExpectedCall == Returned /\ call.params = ExpectedCase

\* C14 as claimed: for the expected case q = 0.931, start_cost = 0.04901 kg,
\* cycle_cost = 0.00322 kg and the amortized value at N = 1 is 0.05073 kg,
\* each up to 10^-6 kg.
C14_ExpectedCaseAsStated ==
    ExpectedCall =>
        /\ Near(ret.q, Fin(931, 1000))
        /\ Near(StartCost(constants, call.params.E_manu_mup.v), Fin(4901, 100000))
        /\ Near(Div(ResultCycleG(ret), Thousand), Fin(322, 100000))
        /\ Near(Div(RowG(DataOf(ret)[1]), Thousand), Fin(5073, 100000))

\* C14 as amended: for the expected case q = 0.931, start_cost = 0.0490248
\* kg, cycle_cost = 0.00322 kg and the amortized value at N = 1 (also the
\* first cost) is 0.0507448 kg = 50.7448 g.
C14_ExpectedCase ==
    ExpectedCall =>
        /\ ret.q = Fin(931, 1000)
        /\ StartCost(constants, call.params.E_manu_mup.v) = Fin(490248, 10000000)
        /\ ResultCycleG(ret) = Fin(322, 100)
        /\ RowG(DataOf(ret)[1]) = Fin(507448, 10000)
        /\ FirstG(ret) = Fin(507448, 10000)

\* the single-scenario app's calc has returned for the expected case
C14_Witness == ExpectedCall /\ call.impl = "single" /\ Len(DataOf(ret)) = 1

\* C15: on every call the three implementations return equal q, equal
\* break-even, equal first and last cost and equal amortized values at every
\* cycle index.
C15_SameComputation ==
    Returned =>
        \A a \in Apps :
            LET r == Engine(a, call.params, call.N_max_top)
            IN  /\ r.q = ret.q
                /\ r.breakEven = ret.breakEven
                /\ FirstG(r) = FirstG(ret)
                /\ LastG(r) = LastG(ret)
                /\ Len(DataOf(r)) = Len(DataOf(ret))
                /\ \A i \in 1..Len(DataOf(ret)) :
                      /\ DataOf(r)[i].cycle = DataOf(ret)[i].cycle
                      /\ RowG(DataOf(r)[i]) = RowG(DataOf(ret)[i])

\* C20: when start_cost + end_of_life_balance >= 0 and q is in [0,1], the
\* amortized series is non-increasing in N, and every entry from the
\* break-even cycle on has amortized emissions <= the single-use reference.
C20_BreakEvenKept ==
    (Returned /\ Leq(Zero, OneTime) /\ InUnit(ret.q)) =>
        LET d == DataOf(ret)
        IN  /\ \A i, j \in 1..Horizon : i < j => Leq(RowG(d[j]), RowG(d[i]))
            /\ ret.breakEven.t # "null" =>
                  \A i \in ret.breakEven.v.n..Horizon : Crosses(d[i])

\* a call with non-negative one-time emissions that breaks even at cycle 2
\* and still falls at cycle 3
C20_Witness ==
    /\ Returned /\ Leq(Zero, OneTime) /\ InUnit(ret.q)
    /\ ret.breakEven = NumV(IntNum(2)) /\ Horizon >= 3
    /\ Lt(RowG(DataOf(ret)[3]), RowG(DataOf(ret)[2]))

(***************************************************************************)
(* Further properties of the running apps (checked under Spec).            *)
(***************************************************************************)
\* C17: the result, the break-even marker and the chart rows on display are
\* those of the engine applied to the current fields and the current
\* horizon.
C17_NoStaleResult ==
    \A fresh \in {[s \in Scenarios(app) |-> Engine(app, state[s], N_max_top)]} :
        /\ res = fresh
        /\ shown = [s \in Scenarios(app) |-> Marker(fresh[s])]
        /\ chartData = ChartData(app, fresh)

\* after an edit of a field and an edit of the horizon
C17_Witness ==
    /\ edits = 2
    /\ N_max_top = IntNum(2)
    /\ state # InitialState(app)
    /\ \A s \in Scenarios(app) : Len(DataOf(res[s])) = 2

\* the orders in which the three scenario results can be merged
ScenarioOrders ==
    {<<a, b, c>> : a, b, c \in {"worst", "expected", "best"}} \ 
    {o \in {<<a, b, c>> : a, b, c \in {"worst", "expected", "best"}} :
        o[1] = o[2] \/ o[1] = o[3] \/ o[2] = o[3]}

\* the chart rows are the same for every order of merging
OrderIndependent ==
    app \in {"three", "text"} =>
        \A o \in ScenarioOrders : MergeFrom(EmptyMap, o, res, 1) = chartData

\* a step that keeps the horizon changes the fields and the result of at most
\* one scenario
IndependentStep ==
    N_max_top' = N_max_top =>
        \E s \in Scenarios(app) :
            \A t \in Scenarios(app) \ {s} : state'[t] = state[t] /\ res'[t] = res[t]

\* C18: an edit of a parameter of one scenario leaves the fields and the
\* results of the other scenarios unchanged, and the chart rows do not
\* depend on the order in which the scenario results are merged.
C18_ScenariosIndependent == []OrderIndependent /\ [][IndependentStep]_vars

\* the worst case was edited and shows another result, the other two
\* scenarios show the results of their initial fields
C18_Witness ==
    /\ app = "three" /\ edits = 1 /\ N_max_top = IntNum(MaxHorizon)
    /\ res["worst"] # Engine(app, InitialState(app)["worst"], N_max_top)
    /\ \A t \in {"expected", "best"} :
          /\ state[t] = InitialState(app)[t]
          /\ res[t] = Engine(app, InitialState(app)[t], N_max_top)

\* the single-use reference in g
ReferenceG == Mul(constants.E_single_shot, Thousand)

\* C19: every point of every series carries the single-use reference, and
\* the chart has exactly one row per cycle index 1..horizon, in increasing
\* order, each holding the reference and the amortized value of every
\* scenario at that cycle.
C19_ReferenceOnEveryRow ==
    /\ \A s \in Scenarios(app) :
          \A i \in 1..Len(DataOf(res[s])) : RowRefG(DataOf(res[s])[i]) = ReferenceG
    /\ Len(chartData) = FullLength
    /\ \A i \in 1..Len(chartData) :
          /\ chartData[i].cycle = i
          /\ chartData[i].SUP = ReferenceG
          /\ app \in {"three", "text"} =>
                /\ DOMAIN chartData[i] =
                     {"cycle", "SUP", "MUP_Worst", "MUP_Expected", "MUP_Best"}
                /\ \A s \in Scenarios(app) :
                      chartData[i][ChartKey(s)] = RowG(DataOf(res[s])[i])

\* a chart of the three-scenario app with several rows and different
\* scenario values
C19_Witness ==
    /\ app = "three" /\ edits > 0
    /\ Len(chartData) >= 2
    /\ chartData[2].MUP_Worst # chartData[2].MUP_Best

\* C21: in the single-scenario app, whenever every field holds a number,
\* every row of the chart has amortized emissions >= the 'MUP minimum'
\* (cycle_cost) plotted with it.
C21_CycleCostIsMinimum ==
    (app = "single" /\ \A f \in DOMAIN state["single"] : IsFinite(state["single"][f].v)) =>
        \A i \in 1..Len(res["single"].chartData) :
            Leq(res["single"].chartData[i].MinCycle, res["single"].chartData[i].MUP)

(***************************************************************************)
(* The horizon (checked under SpecEngine).                                 *)
(***************************************************************************)
\* C22: for every call and every horizon h below the call's horizon, the
\* series for h is the first h entries of the call's series, the first cost
\* is the same, and the break-even for h is the call's break-even when that
\* is a cycle <= h and none otherwise.
C22_HorizonPrefix ==
    Returned =>
        \A h \in 1..(Horizon - 1) :
            \A r \in {Engine(call.impl, call.params, IntNum(h))} :
                /\ Len(DataOf(r)) = h
                /\ \A i \in 1..h : DataOf(r)[i] = DataOf(ret)[i]
                /\ FirstG(r) = FirstG(ret)
                /\ r.breakEven =
                     IF ret.breakEven.t # "null" /\ ret.breakEven.v.n <= h
                     THEN ret.breakEven ELSE Null

\* a call over three cycles that breaks even at cycle 2: horizon 2 reports
\* the same cycle, horizon 1 reports none
C22_Witness ==
    /\ Returned /\ Horizon = 3
    /\ ret.breakEven = NumV(IntNum(2))
    /\ Engine(call.impl, call.params, IntNum(2)).breakEven = NumV(IntNum(2))
    /\ Engine(call.impl, call.params, One).breakEven = Null

(***************************************************************************)
(* Losing focus twice (checked under SpecBlur, where every step is a blur  *)
(* of the same field).                                                     *)
(***************************************************************************)
\* C23: a blur that follows a blur of the same field leaves the stored text
\* and the results unchanged.
C23_BlurIdempotent == [][edits >= 1 => (state' = state /\ res' = res)]_vars

====
